---- MODULE Spec2Model ----
(***************************************************************************)
(* A model of src/app_mobile.py: the analysis of a submitted sentence by   *)
(* a language model, the ingestion of its reply, the history kept in a     *)
(* shared spreadsheet, and the selection state of the browsing surface.    *)
(*                                                                         *)
(* Texts (cell values, model replies, sentences, timestamps, nicknames)    *)
(* are sequences of tokens.  A JSON string literal is one token; the       *)
(* punctuation of JSON, the fence markers and the blank are tokens too.    *)
(* The JSON read here is flat: a scalar, a string, a list of strings, or   *)
(* an object whose values are strings or lists of strings.                 *)
(***************************************************************************)
EXTENDS Integers, Sequences, FiniteSets, TLC

VARIABLES
    clock,               \* the second that stamped the last row saved
    sheet,               \* the rows of worksheet.sheet1, top to bottom
    cache,               \* st.cache_data's entry for load_history
    user_id,             \* st.session_state['user_id']
    history_df,          \* the DataFrame the last script run displayed
    filter_language,     \* st.session_state.filter_language
    search_query,        \* st.session_state.search_query
    select_all,          \* st.session_state.select_all
    delete_selections,   \* st.session_state.delete_selections (ordered dict)
    sel,                 \* st.session_state["sel_<ts>"], the row checkboxes
    timestamps_to_delete,\* the argument bound to the bulk-delete button
    analyze_btn,         \* whether the last run found the button pressed
    user_input,          \* the sentence it was pressed with
    response,            \* the model's reply in the last run, if it was asked
    ai_result,           \* what analyze_with_ai returned in the last run
    notice,              \* the toast or error the last run showed
    pc,                  \* where delete_records_by_bulk stands
    timestamps_list,     \* its argument
    timestamps_col,      \* its scan of column 1
    rows_to_delete,      \* the row indices it has still to delete
    deletes_issued,      \* the row indices it has passed to delete_rows
    before,              \* history: the sheet when the call was made
    peer,                \* delete_records_by_bulk as another session runs it
    live,                \* history: the entries appended and not deleted
    stamps               \* history: the timestamp of every append, in order

vars == <<clock, sheet, cache, user_id, history_df, filter_language,
          search_query, select_all, delete_selections, sel,
          timestamps_to_delete, analyze_btn, user_input, response,
          ai_result, notice, pc,
          timestamps_list, timestamps_col, rows_to_delete, deletes_issued,
          before, peer, live, stamps>>

storeVars == <<clock, sheet, user_id, peer, live, stamps>>
callVars == <<pc, timestamps_list, timestamps_col, rows_to_delete,
              deletes_issued, before>>
viewVars == <<cache, history_df, filter_language, search_query, select_all,
              delete_selections, sel, timestamps_to_delete>>
runVars == <<analyze_btn, user_input, response, ai_result, notice>>

(***************************************************************************)
(* Bounds of the model.                                                    *)
(***************************************************************************)
MaxRows == 2
StoreMaxRows == 3
MaxLoadRows == 2

(***************************************************************************)
(* Sequences.                                                              *)
(***************************************************************************)
Range(s) == {s[i] : i \in 1..Len(s)}

Reverse(s) == [i \in 1..Len(s) |-> s[Len(s) + 1 - i]]

RemoveAt(s, i) == SubSeq(s, 1, i - 1) \o SubSeq(s, i + 1, Len(s))

IsInjective(s) == \A i, j \in 1..Len(s) : s[i] = s[j] => i = j

RECURSIVE Flatten(_)
Flatten(ss) == IF ss = <<>> THEN <<>> ELSE Head(ss) \o Flatten(Tail(ss))

\* Every ordering of the elements of a finite set.
Orderings(S) ==
    {s \in [1..Cardinality(S) -> S] : \A i, j \in 1..Cardinality(S) :
                                          s[i] = s[j] => i = j}

(***************************************************************************)
(* Python values, as json.loads builds them.  One shape serves all: a      *)
(* dict keeps its members in insertion order in items, a list keeps its    *)
(* elements there with an empty key.                                       *)
(***************************************************************************)
PyNone == [type |-> "none", s |-> "", items |-> <<>>]

PyStr(w) == [type |-> "str", s |-> w, items |-> <<>>]

PyScalar(w) == [type |-> "scalar", s |-> w, items |-> <<>>]

PyList(vs) ==
    [type |-> "list", s |-> "",
     items |-> [i \in 1..Len(vs) |-> [k |-> "", v |-> vs[i]]]]

PyDict(members) == [type |-> "dict", s |-> "", items |-> members]

DictKeys(d) == {d.items[i].k : i \in 1..Len(d.items)}

DictGet(d, key, default) ==
    IF key \in DictKeys(d)
    THEN (CHOOSE m \in Range(d.items) : m.k = key).v
    ELSE default

\* d[key] = value: a present key keeps its place, a new one goes last.
DictSet(d, key, value) ==
    IF key \in DictKeys(d)
    THEN [d EXCEPT !.items = [i \in 1..Len(d.items) |->
             IF d.items[i].k = key THEN [k |-> key, v |-> value]
                                   ELSE d.items[i]]]
    ELSE [d EXCEPT !.items = Append(d.items, [k |-> key, v |-> value])]

\* `key in value`, which raises TypeError on a value that is no container.
PyInRaises(value) == value.type \in {"scalar", "none"}

\* The words of the model are atoms: none is a proper substring of another.
PyIn(key, value) ==
    CASE value.type = "dict" -> key \in DictKeys(value)
      [] value.type = "list" -> \E i \in 1..Len(value.items) :
                                    value.items[i].v = PyStr(key)
      [] value.type = "str" -> value.s = key
      [] OTHER -> FALSE

\* bool(value)
Truthy(value) ==
    CASE value.type \in {"dict", "list"} -> value.items # <<>>
      [] value.type = "str" -> value.s # ""
      [] value.type = "scalar" -> value.s # "null"
      [] OTHER -> FALSE

(***************************************************************************)
(* JSON texts.                                                             *)
(***************************************************************************)
\* The fenced-block markers some replies carry: a fence with the json tag, and
\* a bare fence.
FenceJson == "<fence json>"

Fence == "<fence>"

Blank == " "

Punctuation == {"{", "}", "[", "]", ":", ","}

Scalars == {"42", "null"}

IsStrLit(tok) == tok \notin Punctuation \cup Scalars \cup {FenceJson, Fence, Blank}

IsListBody(t) ==
    \/ t = <<>>
    \/ /\ Len(t) % 2 = 1
       /\ \A i \in 1..Len(t) : IF i % 2 = 1 THEN IsStrLit(t[i]) ELSE t[i] = ","

ListOf(t) == PyList([i \in 1..((Len(t) + 1) \div 2) |-> PyStr(t[2 * i - 1])])

ParseError == [ok |-> FALSE, val |-> PyNone]

Parsed(value) == [ok |-> TRUE, val |-> value]

\* A value that is no object.
ParseFlat(t) ==
    CASE Len(t) = 1 /\ IsStrLit(t[1]) -> Parsed(PyStr(t[1]))
      [] Len(t) = 1 /\ t[1] \in Scalars -> Parsed(PyScalar(t[1]))
      [] /\ Len(t) >= 2
         /\ t[1] = "["
         /\ t[Len(t)] = "]"
         /\ IsListBody(SubSeq(t, 2, Len(t) - 1))
           -> Parsed(ListOf(SubSeq(t, 2, Len(t) - 1)))
      [] OTHER -> ParseError

\* The members of an object, left to right; a repeated key keeps its first
\* place and takes its last value.
RECURSIVE ParseMembers(_, _)
ParseMembers(t, acc) ==
    IF Len(t) < 3 \/ ~IsStrLit(t[1]) \/ t[2] # ":" THEN ParseError
    ELSE LET closers == {j \in 3..Len(t) : t[j] = "]"}
             last == IF t[3] # "[" THEN 3
                     ELSE IF closers = {} THEN 0
                     ELSE CHOOSE j \in closers : \A h \in closers : j <= h
             value == IF last = 0 THEN ParseError
                      ELSE ParseFlat(SubSeq(t, 3, last))
             rest == SubSeq(t, last + 1, Len(t))
             more == DictSet(acc, t[1], value.val)
         IN  IF ~value.ok THEN ParseError
             ELSE IF rest = <<>> THEN Parsed(more)
             ELSE IF rest[1] = "," THEN ParseMembers(Tail(rest), more)
             ELSE ParseError

\* json.loads(text): blanks between tokens are skipped.
Loads(text) ==
    LET t == SelectSeq(text, LAMBDA tok : tok # Blank)
    IN  IF Len(t) >= 2 /\ t[1] = "{" /\ t[Len(t)] = "}"
        THEN IF Len(t) = 2 THEN Parsed(PyDict(<<>>))
             ELSE ParseMembers(SubSeq(t, 2, Len(t) - 1), PyDict(<<>>))
        ELSE ParseFlat(t)

\* json.dumps(value, ensure_ascii=False): ", " and ": " separate.
RECURSIVE Dumps(_)
Dumps(value) ==
    CASE value.type = "dict" ->
           <<"{">> \o Flatten([i \in 1..Len(value.items) |->
               (IF i = 1 THEN <<>> ELSE <<",", Blank>>)
               \o <<value.items[i].k, ":", Blank>> \o Dumps(value.items[i].v)])
           \o <<"}">>
      [] value.type = "list" ->
           <<"[">> \o Flatten([i \in 1..Len(value.items) |->
               (IF i = 1 THEN <<>> ELSE <<",", Blank>>)
               \o Dumps(value.items[i].v)])
           \o <<"]">>
      [] OTHER -> <<value.s>>

\* str(value), as astype(str) renders a cell of the data column: the words
\* of the value in reading order.
RECURSIVE Repr(_)
Repr(value) ==
    CASE value.type \in {"dict", "list"} ->
           Flatten([i \in 1..Len(value.items) |->
               (IF value.items[i].k = "" THEN <<>> ELSE <<value.items[i].k>>)
               \o Repr(value.items[i].v)])
      [] OTHER -> <<value.s>>

(***************************************************************************)
(* analyze_with_ai: the ingestion of the model's reply.                    *)
(***************************************************************************)
RECURSIVE LStrip(_)
LStrip(t) == IF t # <<>> /\ Head(t) = Blank THEN LStrip(Tail(t)) ELSE t

\* str.strip()
Strip(t) == Reverse(LStrip(Reverse(LStrip(t))))

\* str.replace(marker, '')
Without(t, marker) == SelectSeq(t, LAMBDA tok : tok # marker)

clean_text(reply) == Strip(Without(Without(reply, FenceJson), Fence))

ErrorIncomplete ==
    PyDict(<<[k |-> "error", v |-> PyStr("AI reply incomplete")],
             [k |-> "structure", v |-> PyList(<<>>)]>>)

ErrorFailed ==
    PyDict(<<[k |-> "error", v |-> PyStr("AI analysis failed")],
             [k |-> "structure", v |-> PyList(<<>>)]>>)

\* The test of line 238, on a value on which `in` does not raise.
Incomplete(result) ==
    ~PyIn("structure", result) \/ ~PyIn("translation", result)

\* A reply that json.loads rejects, and a parsed value on which `in` raises,
\* both end in the except branch; so does a failed call of the model.
analyze_with_ai(reply) ==
    LET parsed == Loads(clean_text(reply))
    IN  IF ~parsed.ok \/ PyInRaises(parsed.val) THEN ErrorFailed
        ELSE IF Incomplete(parsed.val) THEN ErrorIncomplete
        ELSE parsed.val

(***************************************************************************)
(* The replies the model is taken to give.                                 *)
(***************************************************************************)
Member(key, value) == [k |-> key, v |-> value]

Gloss == PyList(<<PyStr("neko")>>)

RecordJa ==
    PyDict(<<Member("language", PyStr("Japanese")),
             Member("translation", PyStr("cat")),
             Member("structure", Gloss)>>)

RecordEn ==
    PyDict(<<Member("language", PyStr("English")),
             Member("translation", PyStr("dog")),
             Member("structure", PyList(<<>>))>>)

RecordNoLanguage ==
    PyDict(<<Member("translation", PyStr("cat")),
             Member("structure", Gloss)>>)

RecordNoStructure == PyDict(<<Member("translation", PyStr("cat"))>>)

RecordNoTranslation == PyDict(<<Member("structure", Gloss)>>)

RecordWithError ==
    PyDict(<<Member("error", PyStr("oops")),
             Member("translation", PyStr("cat")),
             Member("structure", Gloss)>>)

KeyList == PyList(<<PyStr("structure"), PyStr("translation")>>)

Bodies ==
    {Dumps(RecordJa), Dumps(RecordEn), Dumps(RecordNoLanguage),
     Dumps(RecordNoStructure), Dumps(RecordNoTranslation),
     Dumps(RecordWithError), Dumps(PyDict(<<>>)), Dumps(KeyList),
     Dumps(Gloss), <<"translation">>, <<"42">>, <<"null">>, <<>>,
     <<"Sorry", "cat">>, <<"{", "translation">>,
     <<"{", "translation", ":", "cat", ",", "}">>,
     <<"{", "translation", ":", "cat", ",", "translation", ":", "dog", "}">>}

RawReplies ==
    UNION {{body,
            <<FenceJson>> \o body \o <<Fence>>,
            <<Fence>> \o body \o <<Fence>>,
            <<Blank>> \o body \o <<Blank>>,
            <<FenceJson, Blank>> \o body \o <<Blank, Fence, Blank>>}
           : body \in Bodies}

(***************************************************************************)
(* The worksheet: a sequence of rows, each a sequence of cells, each a     *)
(* text.  These are the calls the program makes on it.                     *)
(***************************************************************************)
Header == <<<<"timestamp">>, <<"sentence">>, <<"data_json">>, <<"user">>>>

row_values(ws, i) == IF i <= Len(ws) THEN ws[i] ELSE <<>>

col_values(ws, c) == [i \in 1..Len(ws) |-> ws[i][c]]

append_row(ws, row) == Append(ws, row)

\* A row index under the last row deletes an empty row of the grid.
delete_rowsMutant(ws, i) == IF i <= Len(ws) THEN RemoveAt(ws, i - 1) ELSE ws

delete_rows(ws, i) == IF i <= Len(ws) THEN RemoveAt(ws, i) ELSE ws

\* The rows under the first, keyed by the cells of the first.
get_all_records(ws) ==
    IF Len(ws) <= 1 THEN <<>>
    ELSE LET column(name) == CHOOSE c \in 1..Len(ws[1]) : ws[1][c] = <<name>>
             field(row, name) == IF <<name>> \in Range(ws[1])
                                 THEN row[column(name)] ELSE <<>>
         IN  [i \in 1..(Len(ws) - 1) |->
                 [timestamp |-> field(ws[i + 1], "timestamp"),
                  sentence |-> field(ws[i + 1], "sentence"),
                  data_json |-> field(ws[i + 1], "data_json"),
                  user |-> field(ws[i + 1], "user")]]

\* strftime("%Y-%m-%d %H:%M:%S") of the clock: one text per second.
strftime(now) == <<"T" \o ToString(now)>>

DefaultLanguage == PyStr("Japanese")

UnknownLanguage == PyStr("Unknown")

(***************************************************************************)
(* load_history, the function under the cache.                             *)
(***************************************************************************)
\* json.loads of the texts above, computed once.
Parses == [text \in Bodies |-> Loads(text)]

json_loads(text) == IF text \in Bodies THEN Parses[text] ELSE Loads(text)

\* Line 57: json.loads(x) if x else {}
Decode(cell, loaded) == IF cell # <<>> THEN loaded.val ELSE PyDict(<<>>)

LanguageOf(data) ==
    IF data.type = "dict" THEN DictGet(data, "language", DefaultLanguage)
    ELSE UnknownLanguage

IlocReversedMutant(df) == df

IlocReversed(df) == Reverse(df)

\* A cell that json.loads rejects raises inside apply; the except branch
\* returns the empty DataFrame.
load_history(ws) ==
    LET records == get_all_records(ws)
        parsed == [i \in 1..Len(records) |-> json_loads(records[i].data_json)]
    IN  IF \E i \in 1..Len(records) :
               records[i].data_json # <<>> /\ ~parsed[i].ok
        THEN <<>>
        ELSE IlocReversed([i \in 1..Len(records) |->
                 LET data == Decode(records[i].data_json, parsed[i])
                 IN  [timestamp |-> records[i].timestamp,
                      sentence |-> records[i].sentence,
                      data_json |-> records[i].data_json,
                      user |-> records[i].user,
                      data |-> data,
                      language |-> LanguageOf(data)]])

(***************************************************************************)
(* save_record.  fails is the number of the append_row call that raises,   *)
(* 0 when none does; what was written before it stays written.            *)
(***************************************************************************)
HeaderWanted(ws) == row_values(ws, 1) = <<>>

save_record(ws, now, sentence, result_data, user, fails) ==
    LET new_row == <<strftime(now), sentence, Dumps(result_data), user>>
    IN  IF HeaderWanted(ws)
        THEN IF fails = 1 THEN ws
             ELSE IF fails = 2 THEN append_row(ws, Header)
             ELSE append_row(append_row(ws, Header), new_row)
        ELSE IF fails = 1 THEN ws
             ELSE append_row(ws, new_row)

RowSaved(ws, fails) ==
    fails = 0 \/ fails > (IF HeaderWanted(ws) THEN 2 ELSE 1)

(***************************************************************************)
(* delete_records_by_bulk, step by step.                                   *)
(***************************************************************************)
\* list.index(ts), the row number counted from 0
RowIndexMutant(col, ts) ==
    (CHOOSE i \in 1..Len(col) : col[i] = ts /\ \A j \in 1..(i - 1) : col[j] # ts) - 1

\* list.index(ts) + 1, for a ts the list holds
RowIndex(col, ts) ==
    CHOOSE i \in 1..Len(col) : col[i] = ts /\ \A j \in 1..(i - 1) : col[j] # ts

\* Lines 107-113: the rows of the keys found, in the order of the keys.
RECURSIVE Resolve(_, _)
Resolve(col, keys) ==
    IF keys = <<>> THEN <<>>
    ELSE (IF Head(keys) \in Range(col) THEN <<RowIndex(col, Head(keys))>>
          ELSE <<>>)
         \o Resolve(col, Tail(keys))

SortReverseMutant(rows) == rows

\* rows.sort(reverse=True)
RECURSIVE SortReverse(_)
SortReverse(rows) ==
    IF rows = <<>> THEN <<>>
    ELSE LET top == CHOOSE x \in Range(rows) : \A y \in Range(rows) : y <= x
             at == CHOOSE i \in 1..Len(rows) : rows[i] = top
         IN  <<top>> \o SortReverse(RemoveAt(rows, at))

NoCall ==
    /\ pc' = "idle"
    /\ timestamps_list' = <<>>
    /\ timestamps_col' = <<>>
    /\ rows_to_delete' = <<>>
    /\ deletes_issued' = <<>>
    /\ before' = <<>>

\* Lines 96-103: the call is made and the worksheet opened.
Enter(keys) ==
    /\ pc = "idle"
    /\ keys # <<>>
    /\ pc' = "called"
    /\ timestamps_list' = keys
    /\ before' = sheet
    /\ UNCHANGED <<timestamps_col, rows_to_delete, deletes_issued>>

\* Lines 105-119: the scan of column 1, the resolution and the sort.
Scan ==
    /\ pc = "called"
    /\ timestamps_col' = col_values(sheet, 1)
    /\ rows_to_delete' = SortReverse(Resolve(timestamps_col', timestamps_list))
    /\ pc' = IF rows_to_delete' = <<>> THEN "notfound" ELSE "deleting"
    /\ UNCHANGED <<timestamps_list, deletes_issued, before>>
    /\ UNCHANGED <<storeVars, viewVars, runVars>>

\* Lines 122-124: one turn of the loop.
DeleteRow ==
    /\ pc = "deleting"
    /\ rows_to_delete # <<>>
    /\ sheet' = delete_rows(sheet, Head(rows_to_delete))
    /\ deletes_issued' = Append(deletes_issued, Head(rows_to_delete))
    /\ rows_to_delete' = Tail(rows_to_delete)
    /\ live' = SelectSeq(live, LAMBDA e :
                  e.timestamp # timestamps_col[Head(rows_to_delete)])
    /\ UNCHANGED <<pc, timestamps_list, timestamps_col, before>>
    /\ UNCHANGED <<clock, user_id, peer, stamps, viewVars, runVars>>

\* The call returns True: the loop is through (line 127).
ReturnsTrue == pc = "deleting" /\ rows_to_delete = <<>>

\* The call returns False: no key was found (line 117), or the collaborator
\* raised, at the scan or at a delete (line 131).
ReturnsFalse ==
    \/ pc = "notfound"
    \/ pc = "called"
    \/ pc = "deleting" /\ rows_to_delete # <<>>

(***************************************************************************)
(* The initial state: the first script run of a session on an empty        *)
(* worksheet has passed.                                                   *)
(***************************************************************************)
NoSelections == [items |-> <<>>]

\* The other session is not in delete_records_by_bulk.
IdlePeer ==
    [pc |-> "idle", timestamps_list |-> <<>>, timestamps_col |-> <<>>,
     rows_to_delete |-> <<>>, deletes_issued |-> <<>>]

NoReply == [called |-> FALSE, text |-> <<>>]

Reply(text) == [called |-> TRUE, text |-> text]

EmptyCache == [valid |-> FALSE, df |-> <<>>]

NoCheckboxes == [ts \in {} |-> FALSE]

InitSession ==
    /\ user_id = <<"UserA">>
    /\ history_df = <<>>
    /\ filter_language = PyNone
    /\ search_query = <<>>
    /\ select_all = FALSE
    /\ delete_selections = NoSelections
    /\ sel = NoCheckboxes
    /\ timestamps_to_delete = <<>>
    /\ analyze_btn = FALSE
    /\ user_input = <<>>
    /\ response = NoReply
    /\ ai_result = PyNone
    /\ notice = <<>>

InitCall ==
    /\ pc = "idle"
    /\ timestamps_list = <<>>
    /\ timestamps_col = <<>>
    /\ rows_to_delete = <<>>
    /\ deletes_issued = <<>>
    /\ before = <<>>
    /\ peer = IdlePeer

Init ==
    /\ clock = 0
    /\ sheet = <<>>
    /\ cache = [valid |-> TRUE, df |-> <<>>]
    /\ live = <<>>
    /\ stamps = <<>>
    /\ InitSession
    /\ InitCall

\* The seconds passed between the last row stamped and the row being saved:
\* none (the same timestamp is given again) or some.
Elapsed == IF stamps = <<>> THEN {1} ELSE {0, 1}

(***************************************************************************)
(* The record store on its own: append and deleteMany, called by one       *)
(* session with any entry and any keys.                                    *)
(***************************************************************************)
Entry(ts, sentence, record, user) ==
    [timestamp |-> ts, sentence |-> sentence, record |-> record, user |-> user]

StoreEntries ==
    {Entry(<<>>, <<"Neko">>, RecordJa, <<"UserA">>),
     Entry(<<>>, <<"inu">>, RecordNoLanguage, <<"UserB">>)}

\* The keys a caller may hand over: the timestamps in column 1, and one that
\* no row has (the clock never gives it).
AbsentStamp == strftime(StoreMaxRows + 1)

AllStamps == (Range(col_values(sheet, 1)) \ {Header[1]}) \cup {AbsentStamp}

StoreAppend(e, fails, dt) ==
    /\ pc = "idle"
    /\ Len(stamps) < StoreMaxRows
    /\ clock' = IF RowSaved(sheet, fails) THEN clock + dt ELSE clock
    /\ sheet' = save_record(sheet, clock + dt, e.sentence, e.record, e.user, fails)
    /\ live' = IF RowSaved(sheet, fails)
               THEN Append(live, [e EXCEPT !.timestamp = strftime(clock + dt)])
               ELSE live
    /\ stamps' = IF RowSaved(sheet, fails) THEN Append(stamps, strftime(clock + dt))
                 ELSE stamps
    /\ UNCHANGED <<user_id, peer, viewVars, runVars, callVars>>

StoreDeleteMany(keys) ==
    /\ Enter(keys)
    /\ UNCHANGED <<storeVars, viewVars, runVars>>

StoreReturnTrue ==
    /\ ReturnsTrue
    /\ NoCall
    /\ UNCHANGED <<storeVars, viewVars, runVars>>

StoreReturnFalse ==
    /\ ReturnsFalse
    /\ NoCall
    /\ UNCHANGED <<storeVars, viewVars, runVars>>

NextStore ==
    \/ \E e \in StoreEntries, fails \in 0..2, dt \in Elapsed :
           StoreAppend(e, fails, dt)
    \/ \E K \in SUBSET AllStamps : \E keys \in Orderings(K) : StoreDeleteMany(keys)
    \/ Scan
    \/ DeleteRow
    \/ StoreReturnTrue
    \/ StoreReturnFalse

SpecStore == Init /\ [][NextStore]_vars

(***************************************************************************)
(* Two sessions on one log.  Each script run opens the same worksheet      *)
(* (line 437 hands it to load_history, line 181 to delete_records_by_bulk),*)
(* and nothing in lines 96-131 locks it: between the read of column 1 at   *)
(* line 105 and each delete_rows at line 123 the other session's calls to  *)
(* the worksheet may take effect.  The second session's call keeps its     *)
(* locals in `peer`; its steps are the same lines, run by the other        *)
(* session.                                                                *)
(***************************************************************************)
PeerEnter(keys) ==
    /\ peer.pc = "idle"
    /\ keys # <<>>
    /\ peer' = [IdlePeer EXCEPT !.pc = "called", !.timestamps_list = keys]
    /\ UNCHANGED <<clock, sheet, user_id, live, stamps>>
    /\ UNCHANGED <<viewVars, runVars, callVars>>

PeerScan ==
    /\ peer.pc = "called"
    /\ LET col == col_values(sheet, 1)
           rows == SortReverse(Resolve(col, peer.timestamps_list))
       IN  peer' = [peer EXCEPT !.timestamps_col = col,
                                !.rows_to_delete = rows,
                                !.pc = IF rows = <<>> THEN "notfound" ELSE "deleting"]
    /\ UNCHANGED <<clock, sheet, user_id, live, stamps>>
    /\ UNCHANGED <<viewVars, runVars, callVars>>

PeerDeleteRow ==
    /\ peer.pc = "deleting"
    /\ peer.rows_to_delete # <<>>
    /\ sheet' = delete_rows(sheet, Head(peer.rows_to_delete))
    /\ peer' = [peer EXCEPT !.deletes_issued = Append(@, Head(peer.rows_to_delete)),
                            !.rows_to_delete = Tail(@)]
    /\ live' = SelectSeq(live, LAMBDA e :
                  e.timestamp # peer.timestamps_col[Head(peer.rows_to_delete)])
    /\ UNCHANGED <<clock, user_id, stamps>>
    /\ UNCHANGED <<viewVars, runVars, callVars>>

\* The other session's call is over: the loop ran through (line 127), no
\* row was found (line 117), or a worksheet call raised (lines 129-131).
PeerReturn ==
    /\ peer.pc # "idle"
    /\ peer' = IdlePeer
    /\ UNCHANGED <<clock, sheet, user_id, live, stamps>>
    /\ UNCHANGED <<viewVars, runVars, callVars>>

\* The keys a session hands over: timestamps of rows it has seen in the log,
\* in the order of the log.
RaceKeys ==
    {SelectSeq(col_values(sheet, 1), LAMBDA ts : ts \in K) :
        K \in SUBSET (Range(col_values(sheet, 1)) \ {Header[1]})}

\* A row is saved while no delete is under way, a second after the last.
RaceAppend(e) ==
    /\ peer.pc = "idle"
    /\ StoreAppend(e, 0, 1)

NextRace ==
    \/ \E e \in StoreEntries : RaceAppend(e)
    \/ \E keys \in RaceKeys : StoreDeleteMany(keys)
    \/ Scan
    \/ DeleteRow
    \/ StoreReturnTrue
    \/ StoreReturnFalse
    \/ \E keys \in RaceKeys : PeerEnter(keys)
    \/ PeerScan
    \/ PeerDeleteRow
    \/ PeerReturn

SpecRace == Init /\ [][NextRace]_vars

(***************************************************************************)
(* The browsing surface.  A script run ends every interaction: it loads    *)
(* the history through the cache, filters it, and renders the widgets.     *)
(* Streamlit drops the state of a keyed widget that a completed run did    *)
(* not render; lines 424-431 and 528-529 start it afresh.                  *)
(***************************************************************************)
\* Case folding of the words that have an upper case in the model.
Lower(w) == CASE w = "Neko" -> "neko" [] w = "Inu" -> "inu" [] OTHER -> w

\* str.contains(needle, case=False) on a text
Contains(hay, needle) ==
    \E at \in 0..(Len(hay) - Len(needle)) :
        \A i \in 1..Len(needle) : Lower(hay[at + i]) = Lower(needle[i])

Matches(e, lang, query) ==
    /\ Truthy(lang) => e.language = lang
    /\ query # <<>> => \/ Contains(e.sentence, query)
                       \/ Contains(Repr(e.data), query)

\* Lines 160-167 and 480-489: the language filter, then the search.
FilterView(df, lang, query) == SelectSeq(df, LAMBDA e : Matches(e, lang, query))

Timestamps(df) == {df[i].timestamp : i \in 1..Len(df)}

\* load_history() through st.cache_data: the entry after the call.
LoadCached(ws, ch) ==
    IF ch.valid THEN ch ELSE [valid |-> TRUE, df |-> load_history(ws)]

CheckedInViewMutant(ds, stampsInView) ==
    LET checked == SelectSeq(ds.items, LAMBDA m : m.v)
    IN  [i \in 1..Len(checked) |-> checked[i].k]

\* Lines 496-499: the checked timestamps of the filtered view, in the order
\* of the dict.
CheckedInView(ds, stampsInView) ==
    LET checked == SelectSeq(ds.items, LAMBDA m : m.v /\ m.k \in stampsInView)
    IN  [i \in 1..Len(checked) |-> checked[i].k]

\* Lines 572-573 of an entry's expander: `data and "structure" in data`,
\* then data.get, raise on data that is no dict.
DisplayRaises(data) ==
    /\ Truthy(data)
    /\ \/ PyInRaises(data)
       \/ data.type # "dict" /\ PyIn("structure", data)

\* The row of the view at which the loop of lines 512-596 raises, 0 if it
\* ends: st.checkbox raises on a key an earlier row has used (line 530),
\* and the expander on data it cannot display.
RenderStops(view) ==
    LET raises(i) == \/ \E j \in 1..(i - 1) :
                            view[j].timestamp = view[i].timestamp
                     \/ DisplayRaises(view[i].data)
    IN  IF \E i \in 1..Len(view) : raises(i)
        THEN CHOOSE i \in 1..Len(view) :
                 raises(i) /\ \A j \in 1..(i - 1) : ~raises(j)
        ELSE 0

\* The timestamps whose checkbox the loop renders.
Rendered(view) ==
    LET stop == RenderStops(view)
    IN  Timestamps(IF stop = 0 THEN view ELSE SubSeq(view, 1, stop))

\* Lines 439-596 on the history that line 437 loaded.  A run that ends
\* drops the state of the checkboxes it did not render; a run that raises
\* keeps it.
Display(loaded, lang, query, all, ds, boxes) ==
    LET df == loaded.df
        query1 == IF df # <<>> THEN query ELSE <<>>
        view == FilterView(df, lang, query1)
        kept == IF RenderStops(view) = 0 THEN {} ELSE DOMAIN boxes
    IN  /\ cache' = loaded
        /\ history_df' = df
        /\ filter_language' = lang
        /\ search_query' = query1
        /\ select_all' = (all /\ view # <<>>)
        /\ delete_selections' = ds
        /\ sel' = [ts \in kept \cup Rendered(view) |->
                      IF ts \in DOMAIN boxes THEN boxes[ts]
                      ELSE DictGet(ds, ts, FALSE)]
        /\ timestamps_to_delete' = CheckedInView(ds, Timestamps(view))

\* The script run from line 418 on (lines 303-416 when the button of line
\* 340 is not pressed), from the session state the interaction left.
Rerun(ws, ch, lang, query, all, ds, boxes) ==
    Display(LoadCached(ws, ch), lang, query, all, ds, boxes)

\* What the last run left on screen.
ViewShown == FilterView(history_df, filter_language, search_query)

\* A run in which the analyze button is not pressed.
Quiet ==
    /\ analyze_btn' = FALSE
    /\ user_input' = <<>>
    /\ response' = NoReply
    /\ ai_result' = PyNone
    /\ notice' = <<>>

\* The cache entry is older than its ttl (line 45).
CacheExpire ==
    /\ cache.valid
    /\ cache' = EmptyCache
    /\ UNCHANGED <<history_df, filter_language, search_query, select_all,
                   delete_selections, sel, timestamps_to_delete>>
    /\ UNCHANGED <<storeVars, runVars, callVars>>

\* An interaction that changes nothing modelled: the sentence being typed,
\* the review switch.
RerunScript ==
    /\ pc = "idle"
    /\ Rerun(sheet, cache, filter_language, search_query, select_all,
             delete_selections, sel)
    /\ Quiet
    /\ UNCHANGED <<storeVars, callVars>>

(***************************************************************************)
(* The analyze button (lines 342-416).                                     *)
(***************************************************************************)
HasErrorMutant(result) == FALSE

\* Line 349
HasError(result) == PyIn("error", result)

\* Line 360 onward reads the result with .get
DisplayCrashes(result) == result.type # "dict"

\* The replies of the submissions below, ingested.
Analysis == [reply \in RawReplies |-> analyze_with_ai(reply)]

Submissions ==
    {[sentence |-> <<>>, reply |-> Dumps(RecordJa)],
     [sentence |-> <<"Neko">>, reply |-> Dumps(RecordJa)],
     [sentence |-> <<"inu">>,
      reply |-> <<FenceJson>> \o Dumps(RecordEn) \o <<Fence>>],
     [sentence |-> <<"Neko">>, reply |-> Dumps(KeyList)],
     [sentence |-> <<"inu">>, reply |-> <<"Sorry", "cat">>],
     [sentence |-> <<"inu">>, reply |-> Dumps(RecordNoStructure)]}

\* The submissions whose record the history can display.
SessionSubmissions == {m \in Submissions : Analysis[m.reply].type = "dict"
                                           /\ ~HasError(Analysis[m.reply])
                                           /\ m.sentence # <<>>}

\* Line 343: nothing was typed.
SubmitEmpty(sentence) ==
    /\ pc = "idle"
    /\ sentence = <<>>
    /\ analyze_btn' = TRUE
    /\ user_input' = sentence
    /\ response' = NoReply
    /\ ai_result' = PyNone
    /\ notice' = <<"enter a sentence first">>
    /\ Rerun(sheet, cache, filter_language, search_query, select_all,
             delete_selections, sel)
    /\ UNCHANGED <<storeVars, callVars>>

\* Lines 347-350: the reply is shown as an error.
SubmitRejected(sentence, reply) ==
    /\ pc = "idle"
    /\ sentence # <<>>
    /\ HasError(Analysis[reply])
    /\ analyze_btn' = TRUE
    /\ user_input' = sentence
    /\ response' = Reply(reply)
    /\ ai_result' = Analysis[reply]
    /\ notice' = <<DictGet(ai_result', "error", PyNone).s>>
    /\ Rerun(sheet, cache, filter_language, search_query, select_all,
             delete_selections, sel)
    /\ UNCHANGED <<storeVars, callVars>>

\* Lines 351-416: the record is saved and the cache cleared; the display of
\* a result that is no dict raises and ends the run there, before the
\* history is loaded or rendered.
SubmitSaved(sentence, reply, fails, dt) ==
    /\ pc = "idle"
    /\ sentence # <<>>
    /\ ~HasError(Analysis[reply])
    /\ Len(stamps) < MaxRows
    /\ analyze_btn' = TRUE
    /\ user_input' = sentence
    /\ response' = Reply(reply)
    /\ ai_result' = Analysis[reply]
    /\ clock' = IF RowSaved(sheet, fails) THEN clock + dt ELSE clock
    /\ sheet' = save_record(sheet, clock + dt, sentence, ai_result', user_id, fails)
    /\ live' = IF RowSaved(sheet, fails)
               THEN Append(live, Entry(strftime(clock + dt), sentence, ai_result', user_id))
               ELSE live
    /\ stamps' = IF RowSaved(sheet, fails) THEN Append(stamps, strftime(clock + dt))
                 ELSE stamps
    /\ notice' = (IF RowSaved(sheet, fails) THEN <<>> ELSE <<"save failed">>)
                 \o <<"saved">>
    /\ IF DisplayCrashes(ai_result')
       THEN /\ cache' = EmptyCache
            /\ history_df' = <<>>
            /\ timestamps_to_delete' = <<>>
            /\ UNCHANGED <<filter_language, search_query, select_all,
                           delete_selections, sel>>
       ELSE Rerun(sheet', EmptyCache, filter_language, search_query,
                  select_all, delete_selections, sel)
    /\ UNCHANGED <<user_id, peer, callVars>>

(***************************************************************************)
(* The widgets of the history.                                             *)
(***************************************************************************)
\* The search box (line 484), rendered when there is history.
SetSearch(query) ==
    /\ pc = "idle"
    /\ history_df # <<>>
    /\ query # search_query
    /\ Rerun(sheet, cache, filter_language, query, select_all,
             delete_selections, sel)
    /\ Quiet
    /\ UNCHANGED <<storeVars, callVars>>

\* A language button (lines 449-461): the run it starts finds it pressed if
\* it still renders it, calls set_lang_filter and reruns.
SetLangFilter(lang) ==
    /\ pc = "idle"
    /\ \E i \in 1..Len(history_df) : history_df[i].language = lang
    /\ LET loaded == LoadCached(sheet, cache)
           pressed == \E i \in 1..Len(loaded.df) : loaded.df[i].language = lang
       IN  IF pressed
           THEN Rerun(sheet, loaded,
                      IF filter_language = lang THEN PyNone ELSE lang,
                      search_query, FALSE, NoSelections, sel)
           ELSE Rerun(sheet, loaded, filter_language, search_query,
                      select_all, delete_selections, sel)
    /\ Quiet
    /\ UNCHANGED <<storeVars, callVars>>

RECURSIVE SetEach(_, _, _)
SetEach(ds, keys, value) ==
    IF keys = <<>> THEN ds
    ELSE SetEach(DictSet(ds, Head(keys), value), Tail(keys), value)

SelectedAfterMutant(ds, df, lang, query, state) ==
    SetEach(ds, [i \in 1..Len(df) |-> df[i].timestamp], state)

\* Lines 160-170 of update_selections
SelectedAfter(ds, df, lang, query, state) ==
    LET filtered_df == FilterView(df, lang, query)
    IN  SetEach(ds, [i \in 1..Len(filtered_df) |-> filtered_df[i].timestamp],
                state)

\* The select-all checkbox (line 494) and its callback update_selections.
ToggleSelectAll ==
    /\ pc = "idle"
    /\ ViewShown # <<>>
    /\ LET state == ~select_all
           loaded == LoadCached(sheet, cache)
           touched == Timestamps(FilterView(loaded.df, filter_language,
                                            search_query))
       IN  Rerun(sheet, loaded, filter_language, search_query, state,
                 SelectedAfter(delete_selections, loaded.df, filter_language,
                               search_query, state),
                 [ts \in DOMAIN sel |-> IF ts \in touched THEN state ELSE sel[ts]])
    /\ Quiet
    /\ UNCHANGED <<storeVars, callVars>>

FlagAfterMutant(is_checked, flag) == flag

\* Lines 149-150 of update_individual_selection
FlagAfter(is_checked, flag) == IF ~is_checked /\ flag THEN FALSE ELSE flag

\* A row's checkbox (line 530) and its callback.
ToggleEntry(ts) ==
    /\ pc = "idle"
    /\ ts \in Rendered(ViewShown)
    /\ LET is_checked == ~sel[ts]
       IN  Rerun(sheet, cache, filter_language, search_query,
                 FlagAfter(is_checked, select_all),
                 DictSet(delete_selections, ts, is_checked),
                 [sel EXCEPT ![ts] = is_checked])
    /\ Quiet
    /\ UNCHANGED <<storeVars, callVars>>

(***************************************************************************)
(* The bulk-delete button (lines 501-507) and bulk_delete_callback.        *)
(***************************************************************************)
\* Lines 175-177: nothing is checked.
BulkDeleteNothing ==
    /\ pc = "idle"
    /\ ViewShown # <<>>
    /\ timestamps_to_delete = <<>>
    /\ Quiet
    /\ Rerun(sheet, cache, filter_language, search_query, select_all,
             delete_selections, sel)
    /\ UNCHANGED <<storeVars, callVars>>

\* Line 179: delete_records_by_bulk is called with the button's argument.
BulkDelete ==
    /\ ViewShown # <<>>
    /\ Enter(timestamps_to_delete)
    /\ UNCHANGED <<storeVars, viewVars, runVars>>

\* Line 179: after False the callback does nothing more.
CacheAfterFalse(ch) == ch

\* Line 183: load_history.clear()
CacheAfterTrue(ch) == EmptyCache

\* Lines 126-127 and 180-183, then the script run.
BulkDeleteReturnTrue ==
    /\ ReturnsTrue
    /\ NoCall
    /\ Quiet
    /\ Rerun(sheet, CacheAfterTrue(cache), filter_language, search_query,
             FALSE, NoSelections, sel)
    /\ UNCHANGED storeVars

\* Lines 116-117 or 130-131, then the script run.
BulkDeleteReturnFalse ==
    /\ ReturnsFalse
    /\ NoCall
    /\ Quiet
    /\ Rerun(sheet, CacheAfterFalse(cache), filter_language, search_query,
             select_all, delete_selections, sel)
    /\ UNCHANGED storeVars

Queries == {<<>>, <<"neko">>}

Languages == {PyStr("Japanese"), PyStr("English"), PyStr("Unknown")}

Next ==
    \/ CacheExpire
    \/ RerunScript
    \/ \E m \in SessionSubmissions, fails \in 0..2, dt \in Elapsed :
           SubmitSaved(m.sentence, m.reply, fails, dt)
    \/ \E query \in Queries : SetSearch(query)
    \/ \E lang \in Languages : SetLangFilter(lang)
    \/ ToggleSelectAll
    \/ \E ts \in DOMAIN sel : ToggleEntry(ts)
    \/ BulkDeleteNothing
    \/ BulkDelete
    \/ Scan
    \/ DeleteRow
    \/ BulkDeleteReturnTrue
    \/ BulkDeleteReturnFalse

Spec == Init /\ [][Next]_vars

(***************************************************************************)
(* The analyze button on its own: any sequence of submissions.             *)
(***************************************************************************)
NextSubmit ==
    \/ RerunScript
    \/ \E m \in Submissions : SubmitEmpty(m.sentence)
    \/ \E m \in Submissions : SubmitRejected(m.sentence, m.reply)
    \/ \E m \in Submissions, fails \in 0..2, dt \in Elapsed :
           SubmitSaved(m.sentence, m.reply, fails, dt)

SpecSubmit == Init /\ [][NextSubmit]_vars

(***************************************************************************)
(* analyze_with_ai on its own: the model is about to give any of the       *)
(* replies above, and the reply is ingested.                               *)
(***************************************************************************)
InitExtract ==
    /\ clock = 0
    /\ sheet = <<>>
    /\ cache = EmptyCache
    /\ live = <<>>
    /\ stamps = <<>>
    /\ user_id = <<"UserA">>
    /\ history_df = <<>>
    /\ filter_language = PyNone
    /\ search_query = <<>>
    /\ select_all = FALSE
    /\ delete_selections = NoSelections
    /\ sel = NoCheckboxes
    /\ timestamps_to_delete = <<>>
    /\ analyze_btn = TRUE
    /\ user_input = <<"Neko">>
    /\ \E reply \in RawReplies : response = [called |-> FALSE, text |-> reply]
    /\ ai_result = PyNone
    /\ notice = <<>>
    /\ InitCall

\* Lines 233-244: the reply arrives and is ingested.
Ingest ==
    /\ ~response.called
    /\ response' = Reply(response.text)
    /\ ai_result' = analyze_with_ai(response.text)
    /\ UNCHANGED <<storeVars, viewVars, callVars, analyze_btn, user_input,
                   notice>>

SpecExtract == InitExtract /\ [][Ingest]_vars

(***************************************************************************)
(* load_history on a worksheet as any writer of the spreadsheet may have   *)
(* left it: under the header, rows whose data_json cell holds a record, a  *)
(* list, nothing, or a text that is no JSON.                               *)
(***************************************************************************)
LoadCells ==
    {Dumps(RecordJa), Dumps(RecordEn), Dumps(KeyList), <<>>, <<"Sorry", "cat">>}

LoadSheets ==
    {<<>>} \cup
    UNION {{<<Header>> \o [i \in 1..n |->
                             <<strftime(i), <<"Neko">>, cells[i], <<"UserA">>>>] :
                cells \in [1..n -> LoadCells]} : n \in 0..MaxLoadRows}

InitLoad ==
    /\ clock = 0
    /\ sheet \in LoadSheets
    /\ cache = EmptyCache
    /\ live = <<>>
    /\ stamps = <<>>
    /\ InitSession
    /\ InitCall

NextLoad ==
    \/ CacheExpire
    \/ RerunScript
    \/ \E query \in Queries : SetSearch(query)
    \/ \E lang \in Languages : SetLangFilter(lang)
    \/ \E ts \in DOMAIN sel : ToggleEntry(ts)

SpecLoad == InitLoad /\ [][NextLoad]_vars

(***************************************************************************)
(* Claims about the record store, checked under SpecStore.                 *)
(***************************************************************************)
\* The rows of ws under which a key of keys is first found in column 1.
KeyRows(ws, keys) ==
    {i \in 1..Len(ws) : /\ ws[i][1] \in Range(keys)
                        /\ \A j \in 1..(i - 1) : ws[j][1] # ws[i][1]}

\* C1: whatever the order of the keys handed to delete_records_by_bulk, the
\* rows it deletes are the rows the keys had in column 1 when the call was
\* made, before any delete, and the deletes are issued (and those still to
\* come are queued) in strictly descending row order.
C1_DescendingDeletes ==
    pc = "deleting" =>
        LET planned == deletes_issued \o rows_to_delete
        IN  /\ timestamps_col = col_values(before, 1)
            /\ \A i, j \in 1..Len(planned) : i < j => planned[i] > planned[j]
            /\ Range(planned) = KeyRows(before, timestamps_list)

\* Keys given in ascending row order, two rows apart, deleted bottom up.
C1_Witness ==
    /\ pc = "deleting"
    /\ timestamps_list = <<strftime(1), strftime(3)>>
    /\ deletes_issued = <<4, 2>>

\* C2: on a log whose timestamps are pairwise distinct, a call that runs
\* through leaves exactly the rows whose timestamp is no key, the header
\* among them, in their order; a key without a row changes nothing.
C2_DeletesExactlyTheKeys ==
    /\ (ReturnsTrue /\ IsInjective(col_values(before, 1))) =>
           sheet = SelectSeq(before, LAMBDA row : row[1] \notin Range(timestamps_list))
    /\ pc = "notfound" =>
           /\ sheet = before
           /\ KeyRows(before, timestamps_list) = {}

\* Two of three rows deleted although a third key has no row; the header
\* and the row of no key remain.
C2_Witness ==
    /\ ReturnsTrue
    /\ IsInjective(col_values(before, 1))
    /\ Len(timestamps_list) = 3
    /\ Len(deletes_issued) = 2
    /\ Len(before) = 4
    /\ Len(sheet) = 2
    /\ \E k \in Range(timestamps_list) : k \notin Range(col_values(before, 1))

\* The language of a record: its language member, the fallback without one.
RecordLanguage(record) ==
    IF \E i \in 1..Len(record.items) : record.items[i].k = "language"
    THEN (CHOOSE m \in Range(record.items) : m.k = "language").v
    ELSE PyStr("Japanese")

Rows(ws) == IF ws = <<>> THEN <<>> ELSE Tail(ws)

\* An ingest error: the dict with the error message.
IsIngestError(value) == value.type = "dict" /\ "error" \in DictKeys(value)

C5_PlaceholderForUndecodable ==
    cache.valid =>
        LET records == get_all_records(sheet)
            n == Len(records)
        IN  /\ Len(cache.df) = n
            /\ \A i \in 1..n :
                   LET row == records[n + 1 - i]
                       loaded == Loads(row.data_json)
                   IN  /\ cache.df[i].timestamp = row.timestamp
                       /\ cache.df[i].sentence = row.sentence
                       /\ cache.df[i].user = row.user
                       /\ IF row.data_json # <<>> /\ ~loaded.ok
                          THEN IsIngestError(cache.df[i].data)
                          ELSE cache.df[i].data = Decode(row.data_json, loaded)

(***************************************************************************)
(* Claims about analyze_with_ai, checked under SpecExtract.                *)
(***************************************************************************)
\* The record an object gives: itself, with an empty structure if it has
\* none.
WithStructure(obj) ==
    IF "structure" \in DictKeys(obj) THEN obj
    ELSE DictSet(obj, "structure", PyList(<<>>))

\* C6: the ingestion of a reply returns a record exactly when the reply,
\* its fence markers stripped, parses to an object with a translation: the
\* object itself, with an empty structure if it has none; of any other
\* reply it returns an ingest error.
C6_RecordIffTranslation ==
    response.called =>
        LET parsed == Loads(clean_text(response.text))
        IN  IF /\ parsed.ok
               /\ parsed.val.type = "dict"
               /\ "translation" \in DictKeys(parsed.val)
            THEN ai_result = WithStructure(parsed.val)
            ELSE IsIngestError(ai_result)

(***************************************************************************)
(* Claims about the selection state, checked under Spec.                   *)
(***************************************************************************)
\* The entry of a timestamp in the selections: its value, or none.
Selection(ds, ts) == IF ts \in DictKeys(ds) THEN <<DictGet(ds, ts, FALSE)>> ELSE <<>>

\* Every timestamp the selections or the history know, before or after.
KnownStamps(ds, df) == DictKeys(ds) \cup Timestamps(df)

\* C7: a step that turns select_all on leaves the filter and the search as
\* they are, leaves every timestamp of the view they give selected, and
\* leaves the entry of every other timestamp as it was.
C7_SelectAllSetsFilteredView ==
    [][(~select_all /\ select_all') =>
           /\ filter_language' = filter_language
           /\ search_query' = search_query
           /\ \A ts \in KnownStamps(delete_selections, history_df)
                       \cup KnownStamps(delete_selections', history_df') :
                  IF ts \in Timestamps(ViewShown')
                  THEN Selection(delete_selections', ts) = <<TRUE>>
                  ELSE Selection(delete_selections', ts)
                           = Selection(delete_selections, ts)
      ]_vars

\* Select-all is on under a language filter or a search that hides an entry
\* whose selection was never set.
C7_Witness ==
    /\ select_all
    /\ Truthy(filter_language) \/ search_query # <<>>
    /\ \A ts \in Timestamps(ViewShown) :
           Selection(delete_selections, ts) = <<TRUE>>
    /\ \E ts \in Timestamps(history_df) \ Timestamps(ViewShown) :
           Selection(delete_selections, ts) = <<>>

\* An entry's checkbox is unchecked, by the user.
Unchecks(ts) == sel[ts] /\ ToggleEntry(ts)

\* C8 as claimed: unchecking an entry while select_all is on turns it off,
\* and switching the select-all checkbox off leaves every timestamp that
\* was selected selected.
C8_SwitchOffKeepsSelections ==
    [][/\ \A ts \in DOMAIN sel : (select_all /\ Unchecks(ts)) => ~select_all'
       /\ (select_all /\ ToggleSelectAll) =>
              \A ts \in DictKeys(delete_selections) :
                  DictGet(delete_selections, ts, FALSE) =>
                      DictGet(delete_selections', ts, FALSE)
      ]_vars

\* C8 as amended: unchecking an entry while select_all is on turns it off
\* and changes the entry of no other timestamp; switching the select-all
\* checkbox off leaves every timestamp of the filtered view unselected and
\* the entry of every other timestamp as it was.
C8_SwitchOffDeselectsView ==
    [][/\ \A ts \in DOMAIN sel :
              (select_all /\ Unchecks(ts)) =>
                  /\ ~select_all'
                  /\ Selection(delete_selections', ts) = <<FALSE>>
                  /\ \A other \in KnownStamps(delete_selections, history_df)
                                   \cup KnownStamps(delete_selections', history_df') :
                         other # ts =>
                             Selection(delete_selections', other)
                                 = Selection(delete_selections, other)
       /\ (select_all /\ ToggleSelectAll) =>
              /\ ~select_all'
              /\ \A ts \in KnownStamps(delete_selections, history_df)
                          \cup KnownStamps(delete_selections', history_df') :
                     IF ts \in Timestamps(ViewShown')
                     THEN Selection(delete_selections', ts) = <<FALSE>>
                     ELSE Selection(delete_selections', ts)
                              = Selection(delete_selections, ts)
      ]_vars

\* Select-all is off, the entries of the view under a search are set and
\* unselected, and an entry the search hides is still selected.
C8_Witness ==
    /\ ~select_all
    /\ search_query # <<>>
    /\ ViewShown # <<>>
    /\ \A ts \in Timestamps(ViewShown) :
           Selection(delete_selections, ts) = <<FALSE>>
    /\ \E ts \in Timestamps(history_df) \ Timestamps(ViewShown) :
           Selection(delete_selections, ts) = <<TRUE>>

\* C9: when delete_records_by_bulk is called, its keys are the timestamps
\* that are selected and in the filtered view on screen, each once.
C9_KeysAreSelectedInView ==
    [][(pc = "idle" /\ pc' = "called") =>
           /\ IsInjective(timestamps_list')
           /\ Range(timestamps_list') =
                  {ts \in Timestamps(ViewShown) :
                       Selection(delete_selections, ts) = <<TRUE>>}
      ]_vars

\* The call is made with a key while an entry outside the view is selected
\* and an entry of the view is not.
C9_Witness ==
    /\ pc = "called"
    /\ timestamps_list # <<>>
    /\ \E ts \in DictKeys(delete_selections) \ Timestamps(ViewShown) :
           Selection(delete_selections, ts) = <<TRUE>>

\* C10: between interactions, a snapshot the cache holds is the log's
\* current contents.
C10_CacheNeverStale ==
    (pc = "idle" /\ cache.valid) => cache.df = load_history(sheet)

\* Column 1 as a call expects to find it: the column it read at line 105
\* without the rows it has deleted since.
RECURSIVE Expected(_, _)
Expected(col, issued) ==
    IF issued = <<>> THEN col
    ELSE Expected(RemoveAt(col, Head(issued)), Tail(issued))

\* The timestamps a step takes out of column 1.
Vanished == Range(col_values(sheet, 1)) \ Range(col_values(sheet, 1))'

\* C11: two sessions in delete_records_by_bulk on one log can both resolve
\* their row numbers before either deletes, and a row whose timestamp neither
\* asked for ends up deleted.  The interleaving is C11_Witness; what holds in
\* every interleaving is that a delete takes out a row that its session did
\* not ask for only when column 1 is no longer what that session read less
\* its own deletes, that is, only after the other session's delete.
C11_UnkeyedRowGoesOnlyWhenStale ==
    [][/\ (/\ Len(deletes_issued') > Len(deletes_issued)
           /\ col_values(sheet, 1) = Expected(timestamps_col, deletes_issued))
          => Vanished \subseteq Range(timestamps_list)
       /\ (/\ Len(peer'.deletes_issued) > Len(peer.deletes_issued)
           /\ col_values(sheet, 1) = Expected(peer.timestamps_col, peer.deletes_issued))
          => Vanished \subseteq Range(peer.timestamps_list)]_vars

\* Both calls read column 1 of the log as it was when the first was made,
\* both ran through their loops, and a row that neither asked for is gone.
C11_Witness ==
    /\ ReturnsTrue
    /\ peer.pc = "deleting"
    /\ peer.rows_to_delete = <<>>
    /\ timestamps_col = col_values(before, 1)
    /\ peer.timestamps_col = col_values(before, 1)
    /\ \E ts \in Range(col_values(before, 1)) :
           /\ ts \notin Range(timestamps_list) \cup Range(peer.timestamps_list)
           /\ ts \notin Range(col_values(sheet, 1))

\* C12 as claimed: whenever select_all is on, every timestamp of the view
\* that the language filter and the search give is selected in
\* delete_selections.
C12_SelectAllCoversView ==
    select_all =>
        \A ts \in Timestamps(ViewShown) :
            Selection(delete_selections, ts) = <<TRUE>>

====
